---------------------------- MODULE Spec2Model ----------------------------
(***************************************************************************)
(* The job-processing engine of polyglot-test/python: DataProcessor        *)
(* (data_processor.py) with the DatabaseClient job table                   *)
(* (database_client.py) and the APIResponse envelope (utils.py).           *)
(*                                                                         *)
(* Threads are anonymous and run the same code, so the pool is a bag of    *)
(* worker-local states and the submit_job calls in flight are a set of     *)
(* call frames.  A job_data dict is a heap object: submit_job stores the   *)
(* id in the caller's dict and enqueues a reference to it.                 *)
(***************************************************************************)
EXTENDS Integers, Sequences, FiniteSets, Bags, TLC

\* ------------------------------------------------------------------ bounds
\* submit_job calls over a run (rows of processing_jobs)
MaxJobs == 2
\* start_processing calls over a run
MaxStarts == 2
\* range(3) in start_processing
PoolSize == 3

\* ------------------------------------------------------------- job inputs
KnownJobTypes ==
    {"data_analysis", "data_transformation", "cross_service_call", "ml_prediction"}

\* job_data without a 'job_type' key: job.get('job_type') is None
NoJobType == "None"

\* The input of a shape says what the handler does with the job's
\* input_data: "valid" makes it return a payload, "invalid" makes it return
\* {'error': ...} (no data points, unknown service, unknown model type),
\* "malformed" makes it raise (input_data is not a dict, so input_data.get
\* raises AttributeError).

\* the dicts a caller builds: one per outcome of _process_job (a payload, an
\* exception, a handler's error dict, an unknown type)
JobShapes ==
    { [job_type |-> "data_analysis", input |-> "valid"],
      [job_type |-> "data_analysis", input |-> "malformed"],
      [job_type |-> "data_transformation", input |-> "invalid"],
      [job_type |-> "report", input |-> "valid"] }

\* and one per branch of the dispatch as well, with a dict that has no
\* 'job_type' key
AllJobShapes ==
    JobShapes \cup
    { [job_type |-> "cross_service_call", input |-> "valid"],
      [job_type |-> "ml_prediction", input |-> "valid"],
      [job_type |-> NoJobType, input |-> "valid"] }

\* ids the job table can hold within the bounds, and one it never assigns
ProbeIds == 1..(MaxJobs + 1)

VARIABLES
    is_running,        \* DataProcessor.is_running
    processing_queue,  \* DataProcessor.processing_queue: references to job dicts
    results_cache,     \* DataProcessor.results_cache: job id -> entry
    workers,           \* bag of the live _worker threads' local states
    heap,              \* the job_data dicts callers built: heap[o] = its keys
    jobs_table,        \* rows of processing_jobs, in insert order
    submitting,        \* submit_job calls between the insert and the put
    starts,            \* start_processing calls so far
    returned,          \* the submit_job calls that returned, in return order:
                       \* [job_id returned, job_data enqueued]
    dequeued,          \* the dicts the workers got from the queue, in get order
    executed,          \* bag of [job_id, job_type] of the _process_job runs done
    response,          \* what the last get_job_result call returned
    models,            \* MLService.models: name -> the MLModel object (its place in objects)
    objects,           \* the MLModel objects constructed so far, in construction order
    ml_calls,          \* bag of the MLService calls in flight (their frames)
    ml_entered,        \* create_model and train_model calls that went past their tests
    ml_response,       \* what the last MLService call to return returned
    model_files,       \* the pickle files MLModel.save wrote: path -> blob
    handler_input,     \* the argument of a handler call
    handler_result     \* what the handler call yielded

engine_vars == << is_running, processing_queue, results_cache, workers, heap,
                  jobs_table, submitting, starts, returned, dequeued, executed, response >>

registry_vars == << models, objects, ml_calls, ml_entered, ml_response, model_files >>

handler_vars == << handler_input, handler_result >>

vars == << engine_vars, registry_vars, handler_vars >>

\* ------------------------------------------------------------- handlers
\* what a handler call yields: the dict it returns ({'error': text} or a
\* payload) or the exception it raises
NoResult == [tag |-> "none", text |-> "", arg |-> ""]
Payload(text) == [tag |-> "payload", text |-> text, arg |-> ""]
ErrorDict(text, arg) == [tag |-> "error", text |-> text, arg |-> arg]
Raised(text) == [tag |-> "raise", text |-> text, arg |-> ""]

analyze_data(input) ==
    CASE input = "malformed" -> Raised("AttributeError")
      [] input = "invalid" -> ErrorDict("No data points provided", "")
      [] OTHER -> Payload("analysis")

transform_data(input) ==
    CASE input = "malformed" -> Raised("AttributeError")
      [] input = "invalid" -> ErrorDict("Unknown transformation type", "")
      [] OTHER -> Payload("transformation")

make_cross_service_call(input) ==
    CASE input = "malformed" -> Raised("AttributeError")
      [] input = "invalid" -> ErrorDict("Unknown service", "")
      [] OTHER -> Payload("service_response")

make_ml_prediction(input) ==
    CASE input = "malformed" -> Raised("AttributeError")
      [] input = "invalid" -> ErrorDict("Unknown model type", "")
      [] OTHER -> Payload("prediction")

\* mutant: the chain without its else branch raises on an unknown type
dispatch_strict(job_type, input) ==
    IF job_type = "data_analysis" THEN analyze_data(input)
    ELSE IF job_type = "data_transformation" THEN transform_data(input)
    ELSE IF job_type = "cross_service_call" THEN make_cross_service_call(input)
    ELSE IF job_type = "ml_prediction" THEN make_ml_prediction(input)
    ELSE Raised("UnboundLocalError")

\* the if/elif chain of _process_job
dispatch(job_type, input) ==
    IF job_type = "data_analysis" THEN analyze_data(input)
    ELSE IF job_type = "data_transformation" THEN transform_data(input)
    ELSE IF job_type = "cross_service_call" THEN make_cross_service_call(input)
    ELSE IF job_type = "ml_prediction" THEN make_ml_prediction(input)
    ELSE ErrorDict("Unknown job type", job_type)

\* the entry _process_job stores: {'result': result, ...} when the try block
\* completes, {'error': str(e), ...} when it raises
CompletedEntry(result) == [kind |-> "result", result |-> result, error |-> ""]
FailedEntry(message) == [kind |-> "error", result |-> NoResult, error |-> message]

\* mutant: _process_job without its try/except lets the exception out
process_job_unguarded(job_type, input) ==
    LET result == dispatch(job_type, input)
    IN  IF result.tag = "raise"
        THEN [stored |-> FALSE, entry |-> FailedEntry(result.text), escapes |-> TRUE]
        ELSE [stored |-> TRUE, entry |-> CompletedEntry(result), escapes |-> FALSE]

\* _process_job: what it stores under the job's id and whether an exception
\* leaves it (its except clause stores the failure and swallows the exception)
process_job(job_type, input) ==
    LET result == dispatch(job_type, input)
    IN  IF result.tag = "raise"
        THEN [stored |-> TRUE, entry |-> FailedEntry(result.text), escapes |-> FALSE]
        ELSE [stored |-> TRUE, entry |-> CompletedEntry(result), escapes |-> FALSE]

\* mutant: the cache is replaced by a dict with the one entry
cache_store_only(cache, job_id, entry) == [k \in {job_id} |-> entry]

\* results_cache[job_id] = entry
cache_store(cache, job_id, entry) ==
    [k \in (DOMAIN cache) \cup {job_id} |-> IF k = job_id THEN entry ELSE cache[k]]

\* ------------------------------------------------------------- job table
\* job_data.get('job_type', 'data_analysis') in submit_job
submitted_job_type(job_type) ==
    IF job_type = NoJobType THEN "data_analysis" ELSE job_type

\* mutant: the id of the newest row before the insert
lastrowid_stale(table) == IF table = << >> THEN 1 ELSE Len(table)

\* INTEGER PRIMARY KEY AUTOINCREMENT: one more than the largest id ever used;
\* no row is ever deleted, so the number of rows plus one
lastrowid(table) == Len(table) + 1

create_processing_job(table, job_type) ==
    Append(table, [id |-> lastrowid(table), job_type |-> job_type, status |-> "pending"])

\* ---------------------------------------------------------- APIResponse
\* source records where get_job_result found the data; it is no key of the
\* response
NoData == [kind |-> "none"]

APIResponse_success(data, source) ==
    [status |-> "success", message |-> "Success", data |-> data, source |-> source]

APIResponse_error(message) ==
    [status |-> "error", message |-> message, data |-> NoData, source |-> "none"]

\* SELECT * FROM processing_jobs WHERE id = ?; a failing query is logged and
\* answered with None
get_job_from_database(table, job_id, query_ok) ==
    IF ~query_ok THEN {}
    ELSE { table[i] : i \in { j \in DOMAIN table : table[j].id = job_id } }

\* mutant: no fallback to the job table
get_job_result_cache_only(cache, table, job_id, query_ok) ==
    IF job_id \in DOMAIN cache
    THEN APIResponse_success(cache[job_id], "cache")
    ELSE APIResponse_error("Job not found or still processing")

get_job_result(cache, table, job_id, query_ok) ==
    IF job_id \in DOMAIN cache
    THEN APIResponse_success(cache[job_id], "cache")
    ELSE LET rows == get_job_from_database(table, job_id, query_ok)
         IN  IF rows # {}
             THEN APIResponse_success(CHOOSE r \in rows : TRUE, "database")
             ELSE APIResponse_error("Job not found or still processing")

\* ------------------------------------------------------------------ queue
\* queue.Queue: put appends, get takes the oldest item
queue_put(q, item) == Append(q, item)

\* mutant: a LifoQueue
queue_get_lifo(q) == [item |-> q[Len(q)], rest |-> SubSeq(q, 1, Len(q) - 1)]

queue_get(q) == [item |-> Head(q), rest |-> Tail(q)]

\* ------------------------------------------------------------------ Init
NoResponse ==
    [job_id |-> 0, query_ok |-> TRUE, in_cache |-> FALSE, in_table |-> FALSE,
     reply |-> APIResponse_error("none")]

InitEngine ==
    /\ is_running = FALSE
    /\ processing_queue = << >>
    /\ results_cache = << >>
    /\ workers = EmptyBag
    /\ heap = << >>
    /\ jobs_table = << >>
    /\ submitting = {}
    /\ starts = 0
    /\ returned = << >>
    /\ dequeued = << >>
    /\ executed = EmptyBag
    /\ response = NoResponse

\* ------------------------------------------------------------ life cycle
\* a thread entering _worker: at the while test, holding nothing
NewWorker ==
    [pc |-> "check", job_id |-> 0, job_type |-> "", input |-> "", stop_pending |-> FALSE]

One(w) == SetToBag({w})
Live(bag) == BagCardinality(bag)

\* the threads one start_processing call spawns
spawned_workers == [w \in {NewWorker} |-> PoolSize]

start_processing ==
    /\ starts < MaxStarts
    /\ starts' = starts + 1
    /\ is_running' = TRUE
    /\ workers' = workers (+) spawned_workers
    /\ UNCHANGED << registry_vars, handler_vars >>
    /\ UNCHANGED << processing_queue, results_cache, heap, jobs_table, submitting,
                    returned, dequeued, executed, response >>

\* stop_pending marks the threads that were live when stop_processing ran and
\* have not tested the flag since
MarkStopPending(bag) ==
    LET marked(w) == [w EXCEPT !.stop_pending = TRUE]
        unmarked(w) == [w EXCEPT !.stop_pending = FALSE]
    IN  [m \in { marked(w) : w \in BagToSet(bag) } |->
            CopiesIn(m, bag) + CopiesIn(unmarked(m), bag)]

\* stop_processing; with marking, the live threads are marked stop_pending
stop_call(marking) ==
    /\ is_running' = FALSE
    /\ workers' = IF marking THEN MarkStopPending(workers) ELSE workers
    /\ UNCHANGED << registry_vars, handler_vars >>
    /\ UNCHANGED << processing_queue, results_cache, heap, jobs_table, submitting,
                    starts, returned, dequeued, executed, response >>

stop_processing == stop_call(FALSE)

stop_processing_marked == stop_call(TRUE)

\* ---------------------------------------------------------------- _worker
\* while self.is_running: the thread goes on to get, or leaves the loop
worker_loop_test(running) == IF running THEN "get" ELSE "exit"

worker_check ==
    \E w \in BagToSet(workers) :
        /\ w.pc = "check"
        /\ IF worker_loop_test(is_running) = "get"
           THEN workers' = (workers (-) One(w))
                           (+) One([w EXCEPT !.pc = "get", !.stop_pending = FALSE])
           ELSE workers' = workers (-) One(w)
        /\ UNCHANGED << registry_vars, handler_vars >>
        /\ UNCHANGED << is_running, processing_queue, results_cache, heap, jobs_table,
                        submitting, starts, returned, dequeued, executed, response >>

\* self.processing_queue.get(timeout=1) returns a job and _process_job reads
\* job.get('id') and job.get('job_type') from the dict
worker_get ==
    \E w \in BagToSet(workers) :
        /\ w.pc = "get"
        /\ processing_queue # << >>
        /\ LET got == queue_get(processing_queue)
           IN  /\ processing_queue' = got.rest
               /\ dequeued' = Append(dequeued, got.item)
               /\ workers' = (workers (-) One(w))
                             (+) One([w EXCEPT !.pc = "run",
                                               !.job_id = heap[got.item].id,
                                               !.job_type = heap[got.item].job_type,
                                               !.input = heap[got.item].input])
        /\ UNCHANGED << registry_vars, handler_vars >>
        /\ UNCHANGED << is_running, results_cache, heap, jobs_table, submitting,
                        starts, returned, executed, response >>

\* self.processing_queue.get(timeout=1) raises Empty: continue
worker_get_empty ==
    \E w \in BagToSet(workers) :
        /\ w.pc = "get"
        /\ processing_queue = << >>
        /\ workers' = (workers (-) One(w)) (+) One([w EXCEPT !.pc = "check"])
        /\ UNCHANGED << registry_vars, handler_vars >>
        /\ UNCHANGED << is_running, processing_queue, results_cache, heap, jobs_table,
                        submitting, starts, returned, dequeued, executed, response >>

\* what _worker does once _process_job is over: task_done and the next
\* iteration, or its except Exception clause and the next iteration
worker_after_job(escapes) == "check"

\* the handler runs, _process_job stores the entry, the worker loops
worker_finish ==
    \E w \in BagToSet(workers) :
        /\ w.pc = "run"
        /\ LET done == process_job(w.job_type, w.input)
               next == worker_after_job(done.escapes)
           IN  /\ results_cache' =
                      IF done.stored THEN cache_store(results_cache, w.job_id, done.entry)
                      ELSE results_cache
               /\ workers' =
                      IF next = "exit" THEN workers (-) One(w)
                      ELSE (workers (-) One(w))
                           (+) One([NewWorker EXCEPT !.pc = next,
                                                     !.stop_pending = w.stop_pending])
        /\ executed' = executed (+) One([job_id |-> w.job_id, job_type |-> w.job_type])
        /\ UNCHANGED << registry_vars, handler_vars >>
        /\ UNCHANGED << is_running, processing_queue, heap, jobs_table, submitting,
                        starts, returned, dequeued, response >>

\* -------------------------------------------------------------- submit_job
\* db_client.create_processing_job(...) of a submit_job(job_data) call; a
\* failing insert raises out of submit_job and changes nothing
submit_insert(o, job_type) ==
    /\ Len(jobs_table) < MaxJobs
    /\ jobs_table' = create_processing_job(jobs_table, submitted_job_type(job_type))
    /\ submitting' = submitting \cup {[job_data |-> o, job_id |-> lastrowid(jobs_table)]}

\* submit_job on a dict the caller has just built
submit_job_from(shapes) ==
    \E shape \in shapes :
        /\ submit_insert(Len(heap) + 1, shape.job_type)
        /\ heap' = Append(heap, [job_type |-> shape.job_type, input |-> shape.input, id |-> 0])
        /\ UNCHANGED << registry_vars, handler_vars >>
        /\ UNCHANGED << is_running, processing_queue, results_cache, workers, starts,
                        returned, dequeued, executed, response >>

submit_job_new == submit_job_from(JobShapes)

submit_job_any == submit_job_from(AllJobShapes)

\* submit_job on a dict that was submitted before
submit_job_again ==
    \E o \in DOMAIN heap :
        /\ submit_insert(o, heap[o].job_type)
        /\ UNCHANGED << registry_vars, handler_vars >>
        /\ UNCHANGED << is_running, processing_queue, results_cache, workers, heap, starts,
                        returned, dequeued, executed, response >>

\* job_data['id'] = job_id; self.processing_queue.put(job_data); return job_id
submit_enqueue ==
    \E call \in submitting :
        /\ heap' = [heap EXCEPT ![call.job_data].id = call.job_id]
        /\ processing_queue' = queue_put(processing_queue, call.job_data)
        /\ returned' = Append(returned, call)
        /\ submitting' = submitting \ {call}
        /\ UNCHANGED << registry_vars, handler_vars >>
        /\ UNCHANGED << is_running, results_cache, workers, jobs_table, starts,
                        dequeued, executed, response >>

\* ---------------------------------------------------------- get_job_result
\* a client asks for a job that may or may not exist; the SELECT may fail
get_job_result_call ==
    \E job_id \in ProbeIds, query_ok \in BOOLEAN :
        /\ response' =
              [job_id |-> job_id, query_ok |-> query_ok,
               in_cache |-> job_id \in DOMAIN results_cache,
               in_table |-> \E i \in DOMAIN jobs_table : jobs_table[i].id = job_id,
               reply |-> get_job_result(results_cache, jobs_table, job_id, query_ok)]
        /\ UNCHANGED << registry_vars, handler_vars >>
        /\ UNCHANGED << is_running, processing_queue, results_cache, workers, heap,
                        jobs_table, submitting, starts, returned, dequeued, executed >>

\* ============================================================ ml_service.py
\* create_model and train_model calls that go past their tests, over a run
MaxCalls == 3

\* the names callers use
ModelNames == {"m1", "m2"}

\* the model types callers ask for: the two create_model knows and another
ModelTypes == {"linear_regression", "binary_classification", "decision_tree"}

\* the pickle files
Paths == {"models/a.pkl"}

\* None, and a value that is set; a list is a sequence
None == << >>
Some(v) == << v >>

\* parameters = {}
NoParameters == << >>

\* MLModel.__init__ and the subclass __init__: class is the class of the
\* object, created_at the reading of the clock (the place of the object in
\* the order of construction)
MLModel_init(name, model_type, now) ==
    [class |-> model_type, name |-> name, model_type |-> model_type, version |-> "1.0",
     parameters |-> NoParameters, is_trained |-> FALSE, accuracy |-> None,
     created_at |-> now, weights |-> None, bias |-> 0]

\* training_data dicts: every quotient train takes on them is an integer,
\* so the float arithmetic of train is exact on them
TrainingSets ==
    { [features |-> << <<1>>, <<2>> >>, labels |-> << 1, 3 >>],
      [features |-> << <<1>>, <<2>>, <<3>> >>, labels |-> << 5, 8, 11 >>],
      [features |-> << >>, labels |-> << 1 >>],
      [features |-> << <<1>>, <<2>> >>, labels |-> << >>],
      [features |-> << <<1>>, <<2>> >>, labels |-> << 1 >>] }

\* input_data['features'] of a predict call; << >> is a dict without the key
FeatureSets == { << >>, << <<3>> >>, << <<1>>, <<2, 3>> >> }

RECURSIVE SeqSum(_)
SeqSum(s) == IF s = << >> THEN 0 ELSE Head(s) + SeqSum(Tail(s))

\* a / b where b divides a
true_div(a, b) == a \div b

\* what a train call computes before it writes: the error dict it returns,
\* the exception it raises, or the values it is going to write
NoFit ==
    [outcome |-> "error", text |-> "", weights |-> None, bias |-> 0,
     accuracy |-> 0, n_samples |-> 0, final_loss |-> 0]
TrainError(text) == [NoFit EXCEPT !.text = text]
TrainRaise(text) == [NoFit EXCEPT !.outcome = "raise", !.text = text]

\* mutant: train without the len(X) != len(y) test fits the rows that have a
\* label
LinearRegression_fit_unchecked(X, y) ==
    IF X = << >> \/ y = << >>
    THEN TrainError("Invalid training data")
    ELSE [NoFit EXCEPT !.outcome = "fit", !.weights = << y[1] >>, !.accuracy = 1,
                       !.n_samples = Len(y)]

\* LinearRegressionModel.train up to its first assignment to self
LinearRegression_fit(X, y) ==
    IF X = << >> \/ y = << >> \/ Len(X) # Len(y)
    THEN TrainError("Invalid training data")
    ELSE IF Len(X[1]) # 1
    THEN TrainError("Multi-feature regression not implemented")
    ELSE LET n == Len(X)
             x_vals == [i \in 1..n |-> X[i][1]]
             sum_x == SeqSum(x_vals)
             sum_y == SeqSum(y)
             sum_xy == SeqSum([i \in 1..n |-> x_vals[i] * y[i]])
             sum_x2 == SeqSum([i \in 1..n |-> x_vals[i] * x_vals[i]])
             denominator == n * sum_x2 - sum_x * sum_x
         IN  IF denominator = 0
             THEN TrainRaise("division by zero")
             ELSE LET slope == true_div(n * sum_xy - sum_x * sum_y, denominator)
                      intercept == true_div(sum_y - slope * sum_x, n)
                      y_pred == [i \in 1..n |-> slope * x_vals[i] + intercept]
                      \* y_mean is sum_y / n: the terms of ss_tot are taken n * n
                      \* times, and ss_res with them, so that no quotient is
                      \* taken before the last
                      ss_res == SeqSum([i \in 1..n |->
                                          (y[i] - y_pred[i]) * (y[i] - y_pred[i])])
                      ss_tot == SeqSum([i \in 1..n |->
                                          (n * y[i] - sum_y) * (n * y[i] - sum_y)])
                  IN  [outcome |-> "fit", text |-> "", weights |-> << slope >>,
                       bias |-> intercept,
                       accuracy |-> IF ss_tot # 0
                                    THEN 1 - true_div(n * n * ss_res, ss_tot)
                                    ELSE 0,
                       n_samples |-> n, final_loss |-> 0]

\* what the epoch loop of ClassificationModel.train can end with: it starts
\* from np.random.normal weights
EpochLoopResults ==
    { [bias |-> 0, weights |-> << 1 >>, accuracy |-> 1, final_loss |-> 0],
      [bias |-> 1, weights |-> << 2 >>, accuracy |-> 0, final_loss |-> 1] }

\* ClassificationModel.train up to its first assignment to self
Classification_fit(X, y, loop) ==
    IF X = << >> \/ y = << >> \/ Len(X) # Len(y)
    THEN TrainError("Invalid training data")
    ELSE [outcome |-> "fit", text |-> "", weights |-> loop.weights, bias |-> loop.bias,
          accuracy |-> loop.accuracy, n_samples |-> Len(X), final_loss |-> loop.final_loss]

\* model.train(X, y) up to its first assignment to self: what the call can
\* come to
model_fit(class, X, y) ==
    IF class = "linear_regression"
    THEN { LinearRegression_fit(X, y) }
    ELSE { Classification_fit(X, y, loop) : loop \in EpochLoopResults }

\* the attributes a train call assigns, in the order of its assignments
WriteOrder(class) ==
    IF class = "linear_regression"
    THEN << "weights", "bias", "is_trained", "accuracy", "parameters" >>
    ELSE << "bias", "weights", "is_trained", "accuracy", "parameters" >>

\* self.parameters = {...}: the dict reads self.weights and self.bias
train_parameters(obj, fit) ==
    IF obj.class = "linear_regression"
    THEN [weights |-> obj.weights, bias |-> obj.bias, n_samples |-> fit.n_samples]
    ELSE [weights |-> obj.weights, bias |-> obj.bias, threshold |-> "0.5",
          learning_rate |-> "0.01", epochs |-> 1000, final_loss |-> fit.final_loss]

\* one assignment of train to self
train_assign(obj, attribute, fit) ==
    CASE attribute = "weights" -> [obj EXCEPT !.weights = fit.weights]
      [] attribute = "bias" -> [obj EXCEPT !.bias = fit.bias]
      [] attribute = "is_trained" -> [obj EXCEPT !.is_trained = TRUE]
      [] attribute = "accuracy" -> [obj EXCEPT !.accuracy = Some(fit.accuracy)]
      [] OTHER -> [obj EXCEPT !.parameters = train_parameters(obj, fit)]

\* the dict train returns
train_result(obj) ==
    [status |-> "success", accuracy |-> obj.accuracy, parameters |-> obj.parameters]

\* model.predict(features) of a LinearRegressionModel or a ClassificationModel
\* (the probabilities are the sigmoid of the values given here)
model_predict(obj, features) ==
    IF ~obj.is_trained \/ obj.weights = None
    THEN Raised("Model must be trained before making predictions")
    ELSE IF obj.class = "linear_regression"
    THEN [tag |-> "payload", text |-> "predictions",
          arg |-> [i \in DOMAIN features |->
                     IF Len(features[i]) = 1
                     THEN obj.weights[1] * features[i][1] + obj.bias
                     ELSE 0]]
    ELSE IF \E i \in DOMAIN features : Len(features[i]) # Len(obj.weights)
    THEN Raised("shapes not aligned")
    ELSE [tag |-> "payload", text |-> "probabilities",
          arg |-> [i \in DOMAIN features |->
                     obj.bias + SeqSum([j \in DOMAIN obj.weights |->
                                           obj.weights[j] * features[i][j]])]]

\* mutant: predict tests the features before the trained flag
MLService_predict_features_first(registry, heap_objects, name, features) ==
    IF name \notin DOMAIN registry
    THEN APIResponse_error("Model {model_name} not found")
    ELSE IF features = << >>
    THEN APIResponse_error("Input data must include 'features'")
    ELSE IF ~heap_objects[registry[name]].is_trained
    THEN APIResponse_error("Model {model_name} is not trained")
    ELSE APIResponse_success(model_predict(heap_objects[registry[name]], features), "predict")

\* MLService.predict
MLService_predict(registry, heap_objects, name, features) ==
    IF name \notin DOMAIN registry
    THEN APIResponse_error("Model {model_name} not found")
    ELSE LET model == heap_objects[registry[name]]
         IN  IF ~model.is_trained
             THEN APIResponse_error("Model {model_name} is not trained")
             ELSE IF features = << >>
             THEN APIResponse_error("Input data must include 'features'")
             ELSE LET predictions == model_predict(model, features)
                  IN  IF predictions.tag = "raise"
                      THEN APIResponse_error("Prediction failed: {str(e)}")
                      ELSE APIResponse_success(
                               [model_name |-> name, model_type |-> model.model_type,
                                predictions |-> predictions.arg,
                                num_samples |-> Len(features)], "predict")

\* MLService.list_models
MLService_list_models(registry, heap_objects) ==
    APIResponse_success(
        [name \in DOMAIN registry |->
            LET model == heap_objects[registry[name]]
            IN  [name |-> name, model_type |-> model.model_type,
                 version |-> model.version, is_trained |-> model.is_trained,
                 accuracy |-> model.accuracy]], "list_models")

\* db_client.create_ml_model(...): DatabaseClient defines no create_ml_model,
\* the attribute lookup raises AttributeError
db_client_create_ml_model == Raised("AttributeError")

\* created_at.isoformat()
isoformat(created_at) == << "isoformat", created_at >>

\* the dict MLModel.save pickles
MLModel_save(obj) ==
    [name |-> obj.name, model_type |-> obj.model_type, version |-> obj.version,
     parameters |-> obj.parameters, is_trained |-> obj.is_trained,
     accuracy |-> obj.accuracy, created_at |-> isoformat(obj.created_at)]

\* the assignments of MLModel.load
MLModel_load(obj, blob) ==
    [obj EXCEPT !.name = blob.name, !.model_type = blob.model_type,
                !.version = blob.version, !.parameters = blob.parameters,
                !.is_trained = blob.is_trained, !.accuracy = blob.accuracy]

\* what the last call to return was given, besides the name
NoArg == [model_type |-> "", features |-> << >>, path |-> ""]

\* what an MLService or MLModel call returned
MLResponse(op, name, arg, reply) == [op |-> op, name |-> name, arg |-> arg, reply |-> reply]

NoMLResponse == MLResponse("none", "", NoArg, APIResponse_error("none"))

InitRegistry ==
    /\ models = << >>
    /\ objects = << >>
    /\ ml_calls = EmptyBag
    /\ ml_entered = 0
    /\ ml_response = NoMLResponse
    /\ model_files = << >>

\* --------------------------------------------------------- MLService calls
\* a call in flight: the model object it holds, what it is going to write
\* and the place of its next assignment in the order of its assignments
Frame(op, name, model_type, model, fit) ==
    [op |-> op, name |-> name, model_type |-> model_type, model |-> model,
     fit |-> fit, step |-> 1]

\* the call returns at once
ml_return(op, name, arg, reply) ==
    /\ ml_response' = MLResponse(op, name, arg, reply)
    /\ UNCHANGED << ml_calls, ml_entered >>

\* the call goes on
ml_enter(frame) ==
    /\ ml_entered < MaxCalls
    /\ ml_entered' = ml_entered + 1
    /\ ml_calls' = ml_calls (+) One(frame)
    /\ UNCHANGED ml_response

\* mutant: create_model without its test of the name
create_model_unchecked(name, model_type) ==
    /\ ml_enter(Frame("create", name, model_type, 0, NoFit))
    /\ UNCHANGED << models, objects, model_files >>
    /\ UNCHANGED << engine_vars, handler_vars >>

\* create_model(model_type, name) up to its test of the name
create_model_step(name, model_type) ==
    /\ IF name \in DOMAIN models
       THEN ml_return("create_model", name, [NoArg EXCEPT !.model_type = model_type],
                      APIResponse_error("Model {name} already exists"))
       ELSE ml_enter(Frame("create", name, model_type, 0, NoFit))
    /\ UNCHANGED << models, objects, model_files >>
    /\ UNCHANGED << engine_vars, handler_vars >>

create_model_call ==
    \E name \in ModelNames, model_type \in ModelTypes :
        create_model_step(name, model_type)

\* the rest of create_model: the model is constructed and registered, then
\* saved to the database
create_model_rest(f) ==
    /\ f.op = "create"
    /\ CopiesIn(f, ml_calls) > 0
    /\ ml_calls' = ml_calls (-) One(f)
    /\ IF f.model_type \notin {"linear_regression", "binary_classification"}
       THEN /\ ml_response' =
                   MLResponse("create_model", f.name, [NoArg EXCEPT !.model_type = f.model_type],
                      APIResponse_error("Unsupported model type: {model_type}"))
            /\ UNCHANGED << models, objects >>
       ELSE /\ objects' = Append(objects,
                                 MLModel_init(f.name, f.model_type, Len(objects) + 1))
            /\ models' = [n \in (DOMAIN models) \cup {f.name} |->
                             IF n = f.name THEN Len(objects) + 1 ELSE models[n]]
            /\ ml_response' =
                   MLResponse("create_model", f.name, [NoArg EXCEPT !.model_type = f.model_type],
                      IF db_client_create_ml_model.tag = "raise"
                      THEN APIResponse_error("Model creation failed: {str(e)}")
                      ELSE APIResponse_success(
                               [model_name |-> f.name, model_type |-> f.model_type],
                               "create_model"))
    /\ UNCHANGED << ml_entered, model_files >>
    /\ UNCHANGED << engine_vars, handler_vars >>

create_model_finish == \E f \in BagToSet(ml_calls) : create_model_rest(f)

\* train_model(model_name, training_data) up to the first assignment of
\* model.train
train_model_step(name, data, fit) ==
    /\ IF name \notin DOMAIN models
       THEN ml_return("train_model", name, NoArg,
                      APIResponse_error("Model {model_name} not found"))
       ELSE IF data.features = << >> \/ data.labels = << >>
       THEN ml_return("train_model", name, NoArg,
                APIResponse_error("Training data must include 'features' and 'labels'"))
       ELSE LET model == models[name]
            IN  IF fit.outcome = "error"
                THEN ml_return("train_model", name, NoArg, APIResponse_error(fit.text))
                ELSE IF fit.outcome = "raise"
                THEN ml_return("train_model", name, NoArg,
                               APIResponse_error("Training failed: {str(e)}"))
                ELSE ml_enter(Frame("train", name, objects[model].class, model, fit))
    /\ UNCHANGED << models, objects, model_files >>
    /\ UNCHANGED << engine_vars, handler_vars >>

\* what model.train(X, y) of the model of that name can come to
Fits(name, data) ==
    IF name \in DOMAIN models
    THEN model_fit(objects[models[name]].class, data.features, data.labels)
    ELSE { NoFit }

train_model_call ==
    \E name \in ModelNames, data \in TrainingSets :
        \E fit \in Fits(name, data) : train_model_step(name, data, fit)

\* the next assignment of a model.train in flight; after the last one train
\* returns its dict and train_model wraps it
train_write ==
    \E f \in BagToSet(ml_calls) :
        /\ f.op = "train"
        /\ LET order == WriteOrder(f.model_type)
               written == train_assign(objects[f.model], order[f.step], f.fit)
           IN  /\ objects' = [objects EXCEPT ![f.model] = written]
               /\ IF f.step = Len(order)
                  THEN /\ ml_calls' = ml_calls (-) One(f)
                       /\ ml_response' =
                              MLResponse("train_model", f.name, NoArg,
                                 APIResponse_success(train_result(written), "train_model"))
                  ELSE /\ ml_calls' = (ml_calls (-) One(f))
                                      (+) One([f EXCEPT !.step = f.step + 1])
                       /\ UNCHANGED ml_response
        /\ UNCHANGED << models, ml_entered, model_files >>
        /\ UNCHANGED << engine_vars, handler_vars >>

predict_step(name, features) ==
    /\ ml_response' = MLResponse("predict", name, [NoArg EXCEPT !.features = features],
                                 MLService_predict(models, objects, name, features))
    /\ UNCHANGED << models, objects, ml_calls, ml_entered, model_files >>
    /\ UNCHANGED << engine_vars, handler_vars >>

predict_call ==
    \E name \in ModelNames, features \in FeatureSets : predict_step(name, features)

list_models_call ==
    /\ ml_response' = MLResponse("list_models", "", NoArg,
                                 MLService_list_models(models, objects))
    /\ UNCHANGED << models, objects, ml_calls, ml_entered, model_files >>
    /\ UNCHANGED << engine_vars, handler_vars >>

\* what save and load return
Returned(flag) == [status |-> IF flag THEN "True" ELSE "False"]

\* model.save(path) on a registered model
save_step(name, path) ==
    /\ name \in DOMAIN models
    /\ model_files' = [p \in (DOMAIN model_files) \cup {path} |->
                          IF p = path THEN MLModel_save(objects[models[name]])
                          ELSE model_files[p]]
    /\ ml_response' = MLResponse("save", name, [NoArg EXCEPT !.path = path], Returned(TRUE))
    /\ UNCHANGED << models, objects, ml_calls, ml_entered >>
    /\ UNCHANGED << engine_vars, handler_vars >>

save_call == \E name \in ModelNames, path \in Paths : save_step(name, path)

\* model.load(path) on a registered model; without the file open raises and
\* load returns False
load_step(name, path) ==
    /\ name \in DOMAIN models
    /\ IF path \in DOMAIN model_files
       THEN /\ objects' = [objects EXCEPT ![models[name]] =
                              MLModel_load(objects[models[name]], model_files[path])]
            /\ ml_response' = MLResponse("load", name, [NoArg EXCEPT !.path = path], Returned(TRUE))
       ELSE /\ UNCHANGED objects
            /\ ml_response' = MLResponse("load", name, [NoArg EXCEPT !.path = path], Returned(FALSE))
    /\ UNCHANGED << models, ml_calls, ml_entered, model_files >>
    /\ UNCHANGED << engine_vars, handler_vars >>

load_call == \E name \in ModelNames, path \in Paths : load_step(name, path)

\* ===================================================== the handlers' arithmetic
\* A float has Precision significant bits and an exponent of at most
\* MaxExponent (53 and 1023 for the float of the interpreter).  A finite
\* float is written as the integer that says how many times the smallest
\* positive float it is.
Precision == 3
MaxExponent == 5

\* 1.0
FloatOne == 2 ^ (Precision - 1)
\* the largest finite float
MaxFloat == (2 ^ Precision - 1) * 2 ^ MaxExponent
\* the magnitudes of the finite floats
Magnitudes == { m * 2 ^ e : m \in 0..(2 ^ Precision - 1), e \in 0..MaxExponent }

Finite(n) == [fp |-> "finite", n |-> n]
Infinity(sign) == [fp |-> "inf", n |-> sign]
NaN == [fp |-> "nan", n |-> 0]
\* an entry that is neither an int nor a float
Text == [fp |-> "str", n |-> 0]

Abs(n) == IF n < 0 THEN -n ELSE n
Sign(n) == IF n < 0 THEN -1 ELSE 1

\* the significand of a magnitude
Mantissa(r) ==
    LET e == CHOOSE k \in 0..MaxExponent :
                 /\ r < 2 ^ (Precision + k)
                 /\ k = 0 \/ r >= 2 ^ (Precision + k - 1)
    IN  r \div (2 ^ e)

\* round to nearest, ties to even: the magnitude next to a / b
Nearest(a, b) ==
    LET distance(r) == Abs(r * b - a)
        closest == { r \in Magnitudes : \A s \in Magnitudes : distance(r) <= distance(s) }
        even == { r \in closest : Mantissa(r) % 2 = 0 }
    IN  IF even # {} THEN CHOOSE r \in even : TRUE ELSE CHOOSE r \in closest : TRUE

\* the float that the exact quotient a / b (b > 0) rounds to; past the
\* largest finite float and half a step it is an infinity
RoundToFloat(a, b) ==
    IF 2 * Abs(a) >= b * (2 * MaxFloat + 2 ^ MaxExponent)
    THEN Infinity(Sign(a))
    ELSE Finite(Sign(a) * Nearest(Abs(a), b))

\* x + y
float_add(x, y) ==
    CASE x.fp = "nan" \/ y.fp = "nan" -> NaN
      [] x.fp = "inf" /\ y.fp = "inf" -> IF x.n = y.n THEN x ELSE NaN
      [] x.fp = "inf" -> x
      [] y.fp = "inf" -> y
      [] OTHER -> RoundToFloat(x.n + y.n, 1)

\* x - y
float_sub(x, y) == float_add(x, [y EXCEPT !.n = -y.n])

\* x / y for y that is not zero
float_div(x, y) ==
    CASE x.fp = "nan" \/ y.fp = "nan" -> NaN
      [] x.fp = "inf" /\ y.fp = "inf" -> NaN
      [] x.fp = "inf" -> Infinity(x.n * Sign(y.n))
      [] y.fp = "inf" -> Finite(0)
      [] OTHER -> RoundToFloat(x.n * Sign(y.n) * FloatOne, Abs(y.n))

\* x / k for an int k > 0
float_div_int(x, k) ==
    IF x.fp = "finite" THEN RoundToFloat(x.n, k) ELSE x

\* x ** 2 raises OverflowError when the square of a finite x is out of range
square_overflows(x) ==
    x.fp = "finite" /\ RoundToFloat(x.n * x.n, FloatOne).fp = "inf"

\* x <= y and x == y; every comparison with nan is False
Place(x) == IF x.fp = "inf" THEN x.n * (MaxFloat + 1) ELSE x.n
float_le(x, y) == x.fp # "nan" /\ y.fp # "nan" /\ Place(x) <= Place(y)
float_eq(x, y) == x.fp # "nan" /\ y.fp # "nan" /\ Place(x) = Place(y)

\* sum(numeric_data): left to right, from the int 0
RECURSIVE float_sum(_, _)
float_sum(numeric_data, total) ==
    IF numeric_data = << >> THEN total
    ELSE float_sum(Tail(numeric_data), float_add(total, Head(numeric_data)))

\* min(numeric_data) and max(numeric_data) of finite floats
float_min(numeric_data) ==
    LET i == CHOOSE j \in DOMAIN numeric_data :
                 \A k \in DOMAIN numeric_data : float_le(numeric_data[j], numeric_data[k])
    IN  numeric_data[i]
float_max(numeric_data) ==
    LET i == CHOOSE j \in DOMAIN numeric_data :
                 \A k \in DOMAIN numeric_data : float_le(numeric_data[k], numeric_data[j])
    IN  numeric_data[i]

\* isinstance(x, (int, float))
is_numeric(x) == x.fp # "str"

\* ------------------------------------------------- _analyze_data, in detail
\* data points per list
MaxPoints == 3

\* the entries of the lists: 0.0, 1.0, 3.0, the largest finite float and its
\* negative, and an entry that is no number
DataPoints ==
    { Finite(0), Finite(FloatOne), Finite(3 * FloatOne), Finite(MaxFloat),
      Finite(-MaxFloat), Text }

DataLists == UNION { [1..k -> DataPoints] : k \in 0..MaxPoints }

\* _analyze_data from its test of data_points on: the statistics of the
\* report (variance, std_deviation and categories are further keys, computed
\* from these), or OverflowError out of (x - mean) ** 2
analyze_data_points(data_points) ==
    IF data_points = << >>
    THEN ErrorDict("No data points provided", "")
    ELSE LET numeric_data == SelectSeq(data_points, is_numeric)
         IN  IF numeric_data = << >>
             THEN ErrorDict("No numeric data found", "")
             ELSE LET total == float_sum(numeric_data, Finite(0))
                      mean == float_div_int(total, Len(numeric_data))
                      min_val == float_min(numeric_data)
                      max_val == float_max(numeric_data)
                  IN  IF \E i \in DOMAIN numeric_data :
                            square_overflows(float_sub(numeric_data[i], mean))
                      THEN Raised("OverflowError")
                      ELSE [tag |-> "payload", text |-> "analysis",
                            arg |-> [count |-> Len(numeric_data), sum |-> total,
                                     average |-> mean, min |-> min_val, max |-> max_val,
                                     range |-> float_sub(max_val, min_val)]]

\* -------------------------------------------------------- _normalize_data
normalize_data(data) ==
    LET numeric_data == SelectSeq(data, is_numeric)
    IN  IF numeric_data = << >>
        THEN ErrorDict("No numeric data to normalize", "")
        ELSE LET min_val == float_min(numeric_data)
                 max_val == float_max(numeric_data)
                 range_val == float_sub(max_val, min_val)
             IN  [tag |-> "payload", text |-> "normalize",
                  arg |-> [original_data |-> numeric_data,
                           normalized_data |->
                               IF float_eq(range_val, Finite(0))
                               THEN [i \in DOMAIN numeric_data |-> Finite(FloatOne \div 2)]
                               ELSE [i \in DOMAIN numeric_data |->
                                       float_div(float_sub(numeric_data[i], min_val),
                                                 range_val)],
                           min_value |-> min_val, max_value |-> max_val,
                           range |-> range_val]]

\* -------------------------------------------------------- _aggregate_data
\* records per list
MaxItems == 2

\* the numeric fields a record can have
Fields == {"price", "qty"}

\* what a record has under a key: nothing, an int, or a str
Missing == [cell |-> "missing", n |-> 0]
Number(n) == [cell |-> "number", n |-> n]
Word == [cell |-> "word", n |-> 0]

\* a record without the key 'category'
NoKey == "(no key)"

\* the entries of a list: dicts with or without a category and with their
\* fields missing, numeric or not, and an entry that is no dict
Records ==
    { [dict |-> TRUE, category |-> c, values |-> v] :
         c \in {"a", "default", NoKey}, v \in [Fields -> {Missing, Number(2), Word}] }
    \cup { [dict |-> FALSE, category |-> NoKey, values |-> [f \in Fields |-> Missing]] }

RecordLists == UNION { [1..k -> Records] : k \in 0..MaxItems }

\* isinstance(item, dict)
is_dict(item) == item.dict

\* item.get('category', 'default')
group_key(item) == IF item.category = NoKey THEN "default" ELSE item.category

\* mutant: every item of the group counts for the field
group_field_values_all(items, field) ==
    [i \in DOMAIN items |-> items[i].values[field].n]

\* numeric_fields[field] of a group: the values of the items that have an
\* int or a float under the key, in the order of the items
group_field_values(items, field) ==
    LET numeric == SelectSeq(items, LAMBDA item : item.values[field].cell = "number")
    IN  [i \in DOMAIN numeric |-> numeric[i].values[field].n]

\* group_stats of a group: {field}_sum, {field}_avg and {field}_count of the
\* fields that have a numeric value in the group
group_stats(items) ==
    [field \in { f \in Fields : group_field_values(items, f) # << >> } |->
        LET values == group_field_values(items, field)
        IN  [sum |-> SeqSum(values),
             avg |-> RoundToFloat(SeqSum(values) * FloatOne, Len(values)),
             count |-> Len(values)]]

aggregate_data(data) ==
    IF data = << >>
    THEN ErrorDict("Invalid data for aggregation", "")
    ELSE LET dicts == SelectSeq(data, is_dict)
             groups == { group_key(dicts[i]) : i \in DOMAIN dicts }
         IN  [tag |-> "payload", text |-> "aggregated_data",
              arg |-> [group_name \in groups |->
                          group_stats(SelectSeq(dicts,
                              LAMBDA item : group_key(item) = group_name))]]

\* ------------------------------------------- _make_cross_service_call, in detail
\* input_data['service'] and input_data['method']
Services == {"javascript", "java", "rust"}
Methods == {"GET", "post", "DELETE"}

\* what becomes of the request: a response with a status and a body (a body
\* announced as JSON that is none makes response.json() raise, a
\* RequestException or a plain ValueError with the version of requests), a
\* timeout, or a refused connection
Answer(status_code, body) ==
    [kind |-> "response", status_code |-> status_code, body |-> body]
NoAnswer(kind) == [kind |-> kind, status_code |-> 0, body |-> "none"]

NetworkOutcomes ==
    { Answer(200, "json"), Answer(200, "text"), Answer(404, "json"), Answer(500, "text"),
      Answer(200, "bad json, RequestException"), Answer(200, "bad json, ValueError"),
      NoAnswer("timeout"), NoAnswer("refused") }

\* method.upper()
upper(method) ==
    CASE method = "get" -> "GET"
      [] method = "post" -> "POST"
      [] method = "delete" -> "DELETE"
      [] OTHER -> method

\* _make_cross_service_call from its try block on
make_cross_service_request(service, method, network) ==
    IF service \notin {"javascript", "java"}
    THEN ErrorDict("Unknown service", service)
    ELSE IF upper(method) \notin {"GET", "POST"}
    THEN ErrorDict("Unsupported method", method)
    ELSE IF network.kind # "response"
    THEN ErrorDict("Service call failed", network.kind)
    ELSE IF network.body = "bad json, RequestException"
    THEN ErrorDict("Service call failed", network.body)
    ELSE IF network.body = "bad json, ValueError"
    THEN Raised("ValueError")
    ELSE [tag |-> "payload", text |-> "service_response",
          arg |-> [service |-> service, status_code |-> network.status_code,
                   response |-> network.body]]

\* what _process_job makes of the handler's result, as process_job does
job_outcome(result) ==
    IF result.tag = "raise"
    THEN [stored |-> TRUE, entry |-> FailedEntry(result.text), escapes |-> FALSE]
    ELSE [stored |-> TRUE, entry |-> CompletedEntry(result), escapes |-> FALSE]

\* ------------------------------------------------------------ handler calls
\* no handler call yet
NoCall == [handler |-> "none"]

\* the calls a handler can get
AnalyzeCalls == { [handler |-> "analyze_data", data |-> d] : d \in DataLists }
NormalizeCalls == { [handler |-> "normalize_data", data |-> d] : d \in DataLists }
AggregateCalls == { [handler |-> "aggregate_data", data |-> d] : d \in RecordLists }
CrossServiceCalls ==
    { [handler |-> "make_cross_service_call", service |-> s, method |-> m, network |-> n] :
         s \in Services, m \in Methods, n \in NetworkOutcomes }

\* the handler runs on its argument
handler_call(handler, result) ==
    /\ handler_input.handler = handler
    /\ handler_result = NoCall
    /\ handler_result' = result
    /\ UNCHANGED handler_input
    /\ UNCHANGED << engine_vars, registry_vars >>

analyze_data_call ==
    handler_call("analyze_data", analyze_data_points(handler_input.data))

normalize_data_call ==
    handler_call("normalize_data", normalize_data(handler_input.data))

aggregate_data_call ==
    handler_call("aggregate_data", aggregate_data(handler_input.data))

make_cross_service_call_call ==
    handler_call("make_cross_service_call",
                 make_cross_service_request(handler_input.service, handler_input.method,
                                            handler_input.network))

\* ------------------------------------------------ _make_ml_prediction, in detail
\* input_data['features'] and input_data['model_type'] of an ml_prediction job
JobFeatures == { << >>, << 1 >>, << 2, 3 >>, << -1 >> }
JobModelTypes == {"linear_regression", "classification", "binary_classification",
                  "decision_tree"}

\* _make_ml_prediction from its sleep on; the prediction of the regression
\* is given in tenths and the confidence in hundredths
ml_prediction(features, model_type) ==
    LET Min(a, b) == IF a < b THEN a ELSE b
        Max(a, b) == IF a < b THEN b ELSE a
    IN
    IF model_type = "linear_regression"
    THEN LET prediction == IF Len(features) > 0 THEN SeqSum(features) * 7 + 3 ELSE 5
             confidence ==
                 IF Len(features) > 0
                 THEN Min(95, Max(60, 100 - Abs(prediction - 10 * SeqSum(features))))
                 ELSE 50
         IN  [tag |-> "payload", text |-> "prediction",
              arg |-> [model_type |-> model_type, prediction |-> << prediction >>,
                       confidence |-> confidence, features_used |-> Len(features)]]
    ELSE IF model_type = "classification"
    THEN LET score == IF features # << >> THEN SeqSum(features) ELSE 0
         IN  [tag |-> "payload", text |-> "prediction",
              arg |-> [model_type |-> model_type,
                       prediction |-> IF score > 0 THEN << "positive" >>
                                      ELSE << "negative" >>,
                       confidence |-> Min(95, Max(60, Abs(score) * 10)),
                       features_used |-> Len(features)]]
    ELSE ErrorDict("Unknown model type", model_type)

PredictionCalls ==
    { [handler |-> "make_ml_prediction", features |-> f, model_type |-> t] :
         f \in JobFeatures, t \in JobModelTypes }

make_ml_prediction_call ==
    handler_call("make_ml_prediction",
                 ml_prediction(handler_input.features, handler_input.model_type))

\* ------------------------------------------ LinearRegressionModel.train on lines
\* rows per training set
MaxSamples == 3

\* the lines y = a * x + b and the x values of the rows
Slopes == {-1, 0, 2}
Intercepts == {0, 1}
XValues == 0..3

\* train(X, y) with the rows of X on the line: X is [[x] for x in xs], y the
\* line at xs
LineCalls ==
    { [handler |-> "train", a |-> a, b |-> b,
       X |-> [i \in DOMAIN xs |-> << xs[i] >>],
       y |-> [i \in DOMAIN xs |-> a * xs[i] + b]] :
         a \in Slopes, b \in Intercepts,
         xs \in UNION { [1..k -> XValues] : k \in 2..MaxSamples } }

train_call ==
    handler_call("train", LinearRegression_fit(handler_input.X, handler_input.y))

\* ------------------------------------- LinearRegressionModel.train on floats
\* x * y
float_mul(x, y) ==
    CASE x.fp = "nan" \/ y.fp = "nan" -> NaN
      [] (x.fp = "inf" /\ y.n = 0) \/ (y.fp = "inf" /\ x.n = 0) -> NaN
      [] x.fp = "inf" \/ y.fp = "inf" -> Infinity(Sign(x.n) * Sign(y.n))
      [] OTHER -> RoundToFloat(x.n * y.n, FloatOne)

\* train(X, y) on single-feature rows of floats up to self.is_trained = True:
\* the ZeroDivisionError of the slope, or the slope and the intercept written
\* to weights and bias
train_floats(x_vals, y) ==
    LET n == Len(x_vals)
        \* k * x for an int k
        int_mul(k, x) == float_mul(Finite(k * FloatOne), x)
        sum_x == float_sum(x_vals, Finite(0))
        sum_y == float_sum(y, Finite(0))
        sum_xy == float_sum([i \in 1..n |-> float_mul(x_vals[i], y[i])], Finite(0))
        sum_x2 == float_sum([i \in 1..n |-> float_mul(x_vals[i], x_vals[i])], Finite(0))
        numerator == float_sub(int_mul(n, sum_xy), float_mul(sum_x, sum_y))
        denominator == float_sub(int_mul(n, sum_x2), float_mul(sum_x, sum_x))
    IN  IF float_eq(denominator, Finite(0))
        THEN [outcome |-> "raise", text |-> "float division by zero",
              weights |-> None, bias |-> Finite(0), is_trained |-> FALSE]
        ELSE LET slope == float_div(numerator, denominator)
                 intercept == float_div_int(float_sub(sum_y, float_mul(slope, sum_x)), n)
             IN  [outcome |-> "fit", text |-> "", weights |-> << slope >>,
                  bias |-> intercept, is_trained |-> TRUE]

\* what train_model answers to the call of train: the error response of its
\* except clause, or success
train_model_status(trained) ==
    IF trained.outcome = "raise" THEN "error" ELSE "success"

\* train(X, y) with as many labels as rows: the x values are 1.0 and 1.25,
\* the labels 0.0 and 1.0
FloatTrainCalls ==
    LET XFloats == { Finite(FloatOne), Finite(FloatOne + 1) }
        YFloats == { Finite(0), Finite(FloatOne) }
    IN  UNION { { [handler |-> "train_floats", x_vals |-> x_vals, y |-> y] :
                     x_vals \in [1..k -> XFloats], y \in [1..k -> YFloats] } :
                k \in 2..MaxSamples }

train_floats_call ==
    handler_call("train_floats", train_floats(handler_input.x_vals, handler_input.y))

\* ------------------------------------------------------------- initial state
InitHandler ==
    /\ handler_input = NoCall
    /\ handler_result = NoCall

Init == InitEngine /\ InitRegistry /\ InitHandler

\* --------------------------------------------------------- specifications
\* the engine: clients start and stop the pool and submit jobs, workers serve
Next ==
    \/ start_processing
    \/ stop_processing
    \/ worker_check
    \/ worker_get
    \/ worker_get_empty
    \/ worker_finish
    \/ submit_job_new
    \/ submit_job_again
    \/ submit_enqueue

Spec == Init /\ [][Next]_vars

\* the engine with the threads a stop_processing call found live marked
NextStop ==
    \/ start_processing
    \/ stop_processing_marked
    \/ worker_check
    \/ worker_get
    \/ worker_get_empty
    \/ worker_finish
    \/ submit_job_new
    \/ submit_job_again
    \/ submit_enqueue

SpecStop == Init /\ [][NextStop]_vars

\* the pool started once and serving jobs of every shape, while clients ask
\* for results at any moment
start_once == starts = 0 /\ start_processing

NextQuery ==
    \/ start_once
    \/ worker_check
    \/ worker_get
    \/ worker_get_empty
    \/ worker_finish
    \/ submit_job_any
    \/ submit_enqueue
    \/ get_job_result_call

SpecQuery == Init /\ [][NextQuery]_vars

\* the model registry: clients create, train, query and list models at any
\* moment
NextRegistry ==
    \/ create_model_call
    \/ create_model_finish
    \/ train_model_call
    \/ train_write
    \/ predict_call
    \/ list_models_call

SpecRegistry == Init /\ [][NextRegistry]_vars

\* the models of the registry, saved to and loaded from files
NextPersist ==
    \/ create_model_call
    \/ create_model_finish
    \/ train_model_call
    \/ train_write
    \/ save_call
    \/ load_call

SpecPersist == Init /\ [][NextPersist]_vars


\* the handlers, each on every argument within the bounds
InitHandlers ==
    /\ InitEngine
    /\ InitRegistry
    /\ \/ handler_input \in AnalyzeCalls
       \/ handler_input \in NormalizeCalls
       \/ handler_input \in AggregateCalls
       \/ handler_input \in CrossServiceCalls
       \/ handler_input \in LineCalls
       \/ handler_input \in PredictionCalls
       \/ handler_input \in FloatTrainCalls
    /\ handler_result = NoCall

NextHandlers ==
    \/ analyze_data_call
    \/ normalize_data_call
    \/ aggregate_data_call
    \/ make_cross_service_call_call
    \/ train_call
    \/ make_ml_prediction_call
    \/ train_floats_call

SpecHandlers == InitHandlers /\ [][NextHandlers]_vars

\* ------------------------------------------------------------- properties
RECURSIVE SumCopies(_, _)
SumCopies(bag, elems) ==
    IF elems = {} THEN 0
    ELSE LET e == CHOOSE x \in elems : TRUE
         IN  CopiesIn(e, bag) + SumCopies(bag, elems \ {e})

\* how many _process_job runs were done under this id
Executions(job_id) ==
    SumCopies(executed, { e \in BagToSet(executed) : e.job_id = job_id })

ReturnedIds == { returned[i].job_id : i \in DOMAIN returned }

\* every submit_job call has returned, the queue is empty, no job is running
Drained ==
    /\ submitting = {}
    /\ processing_queue = << >>
    /\ \A w \in BagToSet(workers) : w.pc # "run"

\* a worker in local state w takes a step
Steps(w) == CopiesIn(w, workers') < CopiesIn(w, workers)

\* C1: under every interleaving of workers and submit_job calls, each
\* submitted job is executed by exactly one worker: no job id is processed
\* twice, and once the pool has drained the queue every id submit_job
\* returned has been processed exactly once.
C1_ExactlyOnce ==
    /\ \A e \in BagToSet(executed) : Executions(e.job_id) <= 1
    /\ Drained => \A job_id \in ReturnedIds : Executions(job_id) = 1

\* C2: K submit_job calls leave exactly K results_cache entries once the
\* pool has drained the queue, one per submitted id.
C2_OneEntryPerJob ==
    Drained =>
        /\ DOMAIN results_cache = ReturnedIds
        /\ Cardinality(DOMAIN results_cache) = Len(returned)

\* C3: start_processing is idempotent: after any number of calls the number
\* of live worker threads is at most the pool size.
C3_StartIdempotent == Live(workers) <= PoolSize

\* C4: a worker that was live when stop_processing cleared the flag leaves
\* the loop at its next test of the flag, whatever start, stop and submit
\* calls follow.
C4_StoppedWorkersExit ==
    [][ \A w \in BagToSet(workers) :
            (w.pc = "check" /\ w.stop_pending /\ Steps(w))
                => Live(workers') < Live(workers) ]_vars

\* C5: a job's failure never terminates a worker: when a known handler is
\* given malformed input and raises, a failed entry is stored under the job's
\* id; the worker that ran any job is back at the loop test afterwards; and
\* a thread leaves the pool only when the running flag is false.
C5_FailureKeepsWorker ==
    [][ /\ \A w \in BagToSet(workers) :
              (w.pc = "run" /\ Steps(w)) =>
                  /\ Live(workers') = Live(workers)
                  /\ CopiesIn(NewWorker, workers') > CopiesIn(NewWorker, workers)
                  /\ w.job_id \in DOMAIN results_cache'
                  /\ (w.job_type \in KnownJobTypes /\ w.input = "malformed")
                         => results_cache'[w.job_id] = FailedEntry("AttributeError")
        /\ Live(workers') < Live(workers) => ~is_running ]_vars

C5_Witness ==
    \E a, b \in DOMAIN results_cache :
        /\ a < b
        /\ results_cache[a].kind = "error"
        /\ results_cache[b].kind = "result"
        /\ Live(workers) = PoolSize
        /\ is_running

\* a job of unknown type that was processed has the entry carrying the error
C6_UnknownTypeEntry ==
    \A e \in BagToSet(executed) :
        e.job_type \notin KnownJobTypes =>
            /\ e.job_id \in DOMAIN results_cache
            /\ results_cache[e.job_id].result = ErrorDict("Unknown job type", e.job_type)

\* the worker that ran a job of unknown type is back at the loop test
C6_UnknownTypeKeepsWorker ==
    \A w \in BagToSet(workers) :
        (w.pc = "run" /\ w.job_type \notin KnownJobTypes /\ Steps(w)) =>
            /\ Live(workers') = Live(workers)
            /\ CopiesIn(NewWorker, workers') > CopiesIn(NewWorker, workers)

\* C6: a job of unknown type gets the entry carrying the error "Unknown job
\* type: X" and the worker that ran it stays in the pool, so a job
\* processed after it gets its entry too.
C6_UnknownType == []C6_UnknownTypeEntry /\ [][C6_UnknownTypeKeepsWorker]_vars

\* a bad-type job, then a good job, both with their entries
C6_Witness ==
    \E i, j \in DOMAIN returned :
        /\ i < j
        /\ returned[i].job_data # returned[j].job_data
        /\ heap[returned[i].job_data].job_type \notin KnownJobTypes
        /\ returned[i].job_id \in DOMAIN results_cache
        /\ results_cache[returned[i].job_id].result.tag = "error"
        /\ returned[j].job_id \in DOMAIN results_cache
        /\ results_cache[returned[j].job_id].result.tag = "payload"
        /\ Live(workers) = PoolSize

\* the dicts put on the queue, in put order
Enqueued == [i \in DOMAIN returned |-> returned[i].job_data]

\* C7: the queue is FIFO whatever the job types: the dicts the workers got,
\* followed by those still queued, are the dicts put in put order.
C7_Fifo == dequeued \o processing_queue = Enqueued

C7_Witness ==
    /\ Len(dequeued) >= 2
    /\ dequeued[1] # dequeued[2]
    /\ heap[dequeued[1]].job_type # heap[dequeued[2]].job_type

NotFound == APIResponse_error("Job not found or still processing")

\* get_job_result looks in results_cache first and in the job table on a miss
C8_CacheThenTable ==
    /\ response.in_cache =>
          (response.reply.status = "success" /\ response.reply.source = "cache")
    /\ (~response.in_cache /\ response.in_table /\ response.query_ok) =>
          (response.reply.status = "success" /\ response.reply.source = "database")

\* C8: results_cache first, the job table on a miss, and the "not
\* found or still processing" error exactly when the id is in neither.
C8_NotFoundIffAbsent ==
    response.job_id # 0 =>
        /\ C8_CacheThenTable
        /\ response.reply = NotFound <=> (~response.in_cache /\ ~response.in_table)

\* C8, amended: the error is returned exactly when the id is not in
\* results_cache and the SELECT yields no row, because the id is not in the
\* table or because the query failed.
C8_NotFoundIffNoRow ==
    response.job_id # 0 =>
        /\ C8_CacheThenTable
        /\ response.reply = NotFound <=>
              (~response.in_cache /\ (~response.in_table \/ ~response.query_ok))

C8_Witness ==
    /\ response.job_id # 0
    /\ ~response.in_cache
    /\ response.in_table
    /\ ~response.query_ok
    /\ response.reply = NotFound

\* the status get_job_result gives for a job that succeeded
SucceededStatus == APIResponse_success(CompletedEntry(Payload("analysis")), "cache").status

\* C9: the response for a job whose execution failed has another status than
\* the response for a job that succeeded.
C9_FailedStatusDiffers ==
    (response.reply.source = "cache" /\ response.reply.data.kind = "error")
        => response.reply.status # SucceededStatus

UniqueReturned ==
    \A i, j \in DOMAIN returned : i # j => returned[i].job_id # returned[j].job_id

\* the job is in the table before it is queued or returned
PersistedFirst ==
    /\ \A call \in submitting : \E r \in DOMAIN jobs_table : jobs_table[r].id = call.job_id
    /\ \A i \in DOMAIN returned : \E r \in DOMAIN jobs_table : jobs_table[r].id = returned[i].job_id
    /\ Len(processing_queue) <= Len(returned)

\* C10: every id submit_job returns is greater than every id
\* returned earlier, also with concurrent producers.
C10_ReturnedIncreasing ==
    \A i, j \in DOMAIN returned : i < j => returned[i].job_id < returned[j].job_id

\* the id an insert assigns is greater than every id returned before it
InsertBeyondReturned ==
    Len(jobs_table') > Len(jobs_table) =>
        \A i \in DOMAIN returned : returned[i].job_id < jobs_table'[Len(jobs_table')].id

\* C10, amended: submit_job persists, then enqueues, then returns; the ids it
\* returns are unique, and each is greater than every id returned before
\* its own insert (overlapping calls may return in either order).
C10_UniqueAndBeyondEarlier ==
    [](UniqueReturned /\ PersistedFirst) /\ [][InsertBeyondReturned]_vars

\* two overlapping calls returned in the reverse of their insert order
C10_Witness ==
    \E i, j \in DOMAIN returned : i < j /\ returned[i].job_id > returned[j].job_id

\* ------------------------------------------------- properties: ml_service.py
\* the attributes train assigns, as a listing of the models shows them
ListedWhole(entry) == entry.is_trained <=> entry.accuracy # None

\* C11: a model is never partially updated: no list_models call sees a model
\* whose trained flag is written and whose accuracy is not (or the reverse)
C11_NoPartialUpdateSeen ==
    ml_response.op = "list_models" =>
        \A name \in DOMAIN ml_response.reply.data :
            ListedWhole(ml_response.reply.data[name])

\* a train_model call that has to fail: no such model, no features or no
\* labels, or as many rows as labels
BadTraining(name, data) ==
    \/ name \notin DOMAIN models
    \/ data.features = << >>
    \/ data.labels = << >>
    \/ Len(data.features) # Len(data.labels)

DescribedTrainErrors ==
    { "Model {model_name} not found",
      "Training data must include 'features' and 'labels'",
      "Invalid training data" }

TrainFailsUntouched(name, data, fit) ==
    (train_model_step(name, data, fit) /\ BadTraining(name, data)) =>
        /\ ml_response'.op = "train_model"
        /\ ml_response'.reply.status = "error"
        /\ ml_response'.reply.message \in DescribedTrainErrors
        /\ UNCHANGED << models, objects, ml_calls, model_files >>

\* C12: train_model on a missing model, on empty features or labels or on
\* features and labels of different lengths returns a described error and
\* leaves every model and the registry as they were
C12_FailedTrainUntouched ==
    [][\A name \in ModelNames, data \in TrainingSets :
          \A fit \in Fits(name, data) : TrainFailsUntouched(name, data, fit)]_vars

\* a trained model went through a train_model call with more rows than labels
C12_Witness ==
    /\ ml_response.op = "train_model"
    /\ ml_response.reply = APIResponse_error("Invalid training data")
    /\ ml_response.name \in DOMAIN models
    /\ objects[models[ml_response.name]].is_trained
    /\ objects[models[ml_response.name]].parameters # NoParameters

NotTrained == APIResponse_error("Model {model_name} is not trained")

UntrainedRefused(name, features) ==
    (/\ predict_step(name, features)
     /\ name \in DOMAIN models
     /\ ~objects[models[name]].is_trained) => ml_response'.reply = NotTrained

\* C13: predict on a registered model whose trained flag is not set returns
\* the "is not trained" error whatever the features are, and no predictions
C13_UntrainedRefused ==
    [][\A name \in ModelNames, features \in FeatureSets :
          UntrainedRefused(name, features)]_vars

\* predict without features on a registered, untrained model
C13_Witness ==
    /\ ml_response.op = "predict"
    /\ ml_response.arg.features = << >>
    /\ ml_response.reply = NotTrained
    /\ ml_response.name \in DOMAIN models
    /\ ~objects[models[ml_response.name]].is_trained

DuplicateRefused(name, model_type) ==
    (create_model_step(name, model_type) /\ name \in DOMAIN models) =>
        /\ ml_response'.reply = APIResponse_error("Model {name} already exists")
        /\ UNCHANGED << models, objects, ml_calls, model_files >>

UnsupportedRefused(f) ==
    (/\ create_model_rest(f)
     /\ f.model_type \notin {"linear_regression", "binary_classification"}) =>
        /\ ml_response'.reply.status = "error"
        /\ UNCHANGED << models, objects, model_files >>

\* every registered name has one model, and it is the model of that name
NamesUnique == \A name \in DOMAIN models : objects[models[name]].name = name

\* C14: create_model on a registered name returns an error and leaves the
\* registered model as it is, create_model with an unsupported type returns
\* an error and registers nothing, and names stay unique
C14_CreateRefused ==
    /\ []NamesUnique
    /\ [][\A name \in ModelNames, model_type \in ModelTypes :
             DuplicateRefused(name, model_type)]_vars
    /\ [][\A f \in BagToSet(ml_calls) : UnsupportedRefused(f)]_vars

\* create_model on the name of a trained model
C14_Witness ==
    /\ ml_response.op = "create_model"
    /\ ml_response.reply = APIResponse_error("Model {name} already exists")
    /\ ml_response.name \in DOMAIN models
    /\ objects[models[ml_response.name]].is_trained
    /\ objects[models[ml_response.name]].parameters # NoParameters

\* the object is as one whole train call with that fit leaves it
TrainedBy(obj, fit) ==
    /\ fit.outcome = "fit"
    /\ obj.weights = fit.weights
    /\ obj.bias = fit.bias
    /\ obj.is_trained
    /\ obj.accuracy = Some(fit.accuracy)
    /\ obj.parameters = train_parameters(obj, fit)

Untrained(obj) ==
    /\ ~obj.is_trained
    /\ obj.weights = None
    /\ obj.accuracy = None
    /\ obj.parameters = NoParameters

\* C15: train_model calls on one name do not interleave their writes: once
\* they have all returned, the model is as one of them alone leaves it
C15_TrainingSerialized ==
    \A i \in DOMAIN objects :
        (\A f \in BagToSet(ml_calls) : ~(f.op = "train" /\ f.model = i)) =>
            \/ Untrained(objects[i])
            \/ \E data \in TrainingSets :
                  \E fit \in model_fit(objects[i].class, data.features, data.labels) :
                      TrainedBy(objects[i], fit)

Restored(name, path) ==
    (load_step(name, path) /\ path \in DOMAIN model_files) =>
        MLModel_save(objects'[models[name]]) = model_files[path]

\* C16: after save(path) on a model and load(path) on any model, the name,
\* model type, version, parameters, trained flag, accuracy and creation time
\* of the loading model are those the saving model had
C16_RoundTrip ==
    [][\A name \in ModelNames, path \in Paths : Restored(name, path)]_vars

\* the handler named has run: its argument and what it gave
Ran(handler) == handler_input.handler = handler /\ handler_result # NoCall

HasNumeric(data) == \E i \in DOMAIN data : is_numeric(data[i])

\* C17: for every sequence with a numeric entry the analysis reports
\* min <= average <= max and range == max - min, with count and sum those of
\* the numeric entries.
C17_AnalysisBounds ==
    (Ran("analyze_data") /\ HasNumeric(handler_input.data))
        => LET numeric_data == SelectSeq(handler_input.data, is_numeric)
               report == handler_result.arg
           IN  /\ handler_result.tag = "payload"
               /\ report.count = Len(numeric_data)
               /\ report.sum = float_sum(numeric_data, Finite(0))
               /\ float_le(report.min, report.average)
               /\ float_le(report.average, report.max)
               /\ report.range = float_sub(report.max, report.min)

\* C18: when max == min every normalized value is exactly 0.5; otherwise
\* every normalized value lies in [0, 1], the elements at the maximum map to
\* 1 and the elements at the minimum map to 0.
C18_NormalizeBounds ==
    (Ran("normalize_data") /\ HasNumeric(handler_input.data))
        => LET numeric_data == SelectSeq(handler_input.data, is_numeric)
               min_val == float_min(numeric_data)
               max_val == float_max(numeric_data)
               normalized == handler_result.arg.normalized_data
           IN  /\ handler_result.tag = "payload"
               /\ DOMAIN normalized = DOMAIN numeric_data
               /\ \A i \in DOMAIN numeric_data :
                     IF float_eq(max_val, min_val)
                     THEN normalized[i] = Finite(FloatOne \div 2)
                     ELSE /\ float_le(Finite(0), normalized[i])
                          /\ float_le(normalized[i], Finite(FloatOne))
                          /\ float_eq(numeric_data[i], max_val)
                                => normalized[i] = Finite(FloatOne)
                          /\ float_eq(numeric_data[i], min_val)
                                => normalized[i] = Finite(0)

\* the sum over the groups named of the field's count in the report
RECURSIVE SumCounts(_, _, _)
SumCounts(report, group_names, field) ==
    IF group_names = {}
    THEN 0
    ELSE LET g == CHOOSE x \in group_names : TRUE
         IN  (IF field \in DOMAIN report[g] THEN report[g][field].count ELSE 0)
                 + SumCounts(report, group_names \ {g}, field)

\* every value the records have under the field is an int or a float
NumericField(data, field) ==
    \A i \in DOMAIN data : data[i].values[field].cell \in {"missing", "number"}

\* the records that have a value under the field
NonMissing(data, field) ==
    Cardinality({ i \in DOMAIN data : data[i].values[field].cell # "missing" })

\* C19: for every list of records and every numeric field, the sum over all
\* groups of the field's count equals the number of records that have a
\* value of the field.
C19_CountsAddUp ==
    (Ran("aggregate_data") /\ handler_input.data # << >>)
        => /\ handler_result.tag = "payload"
           /\ \A field \in Fields :
                 NumericField(handler_input.data, field)
                    => SumCounts(handler_result.arg, DOMAIN handler_result.arg, field)
                          = NonMissing(handler_input.data, field)

\* two groups, one field counted in both, the other missing in one record
C19_Witness ==
    /\ Ran("aggregate_data")
    /\ handler_result.tag = "payload"
    /\ DOMAIN handler_result.arg = {"a", "default"}
    /\ \A field \in Fields : NumericField(handler_input.data, field)
    /\ SumCounts(handler_result.arg, {"a", "default"}, "price") = 2
    /\ "price" \in DOMAIN handler_result.arg["a"]
    /\ NonMissing(handler_input.data, "qty") = 1

\* the request went out and failed: a timeout, a refused connection, or a
\* response that is not 2xx
CallFailed(call) ==
    /\ call.service \in {"javascript", "java"}
    /\ upper(call.method) \in {"GET", "POST"}
    /\ \/ call.network.kind \in {"timeout", "refused"}
       \/ call.network.kind = "response" /\ call.network.status_code \notin 200..299

\* the entry stored for the job reports an error
ErrorOutcome(entry) ==
    \/ entry.kind = "error"
    \/ entry.kind = "result" /\ entry.result.tag = "error"

\* C20: every failure of a cross-service call (timeout, connection refused,
\* response that is not 2xx) is turned into an error outcome of the job and
\* never leaves _process_job as an exception.
C20_FailureIsJobError ==
    (Ran("make_cross_service_call") /\ CallFailed(handler_input))
        => /\ ~job_outcome(handler_result).escapes
           /\ job_outcome(handler_result).stored
           /\ ErrorOutcome(job_outcome(handler_result).entry)

\* C21: training a linear regression on rows that lie on the line
\* y = a * x + b, with two different x values at least, gives the slope a,
\* the intercept b and the R^2 1.
C21_LineRecovered ==
    (Ran("train") /\ \E i, j \in DOMAIN handler_input.X :
                        handler_input.X[i] # handler_input.X[j])
        => /\ handler_result.outcome = "fit"
           /\ handler_result.weights = << handler_input.a >>
           /\ handler_result.bias = handler_input.b
           /\ handler_result.accuracy = 1

\* C22: once stop_processing has cleared the flag, and as long as
\* start_processing does not set it again, no worker takes a job from the
\* queue, whether the job was submitted before or after the stop.
C22_NoDequeueAfterStop ==
    [][ (~is_running /\ ~is_running') => dequeued' = dequeued ]_vars

\* C23: processing one dequeued job writes the result store exactly once,
\* under the id of that job, whether the handler returned or raised: the
\* step that ends the job sets the entry of that id and no other, and no
\* other step changes the store.
C23_OneWritePerJob ==
    [][ /\ \A w \in BagToSet(workers) :
              (w.pc = "run" /\ Steps(w)) =>
                  /\ DOMAIN results_cache' = DOMAIN results_cache \cup {w.job_id}
                  /\ \A k \in DOMAIN results_cache \ {w.job_id} :
                        results_cache'[k] = results_cache[k]
                  /\ results_cache'[w.job_id] \in
                        { CompletedEntry(dispatch(w.job_type, w.input)),
                          FailedEntry(dispatch(w.job_type, w.input).text) }
                  /\ BagCardinality(executed') = BagCardinality(executed) + 1
        /\ results_cache' # results_cache
              => \E w \in BagToSet(workers) : w.pc = "run" /\ Steps(w) ]_vars

\* two jobs processed, one on the failure path and one on the success path,
\* each with its entry
C23_Witness ==
    /\ BagCardinality(executed) = 2
    /\ \E a, b \in DOMAIN results_cache :
          /\ a # b
          /\ results_cache[a].kind = "error"
          /\ results_cache[b].kind = "result"
          /\ \A e \in BagToSet(executed) : e.job_id \in {a, b}

\* C24: every entry of the result store has exactly one of payload and error:
\* an entry that carries an error, the handler's own report of an unknown
\* job type or of invalid input included, has no payload, and an entry with a
\* payload carries no error.
C24_PayloadOrError ==
    \A job_id \in DOMAIN results_cache :
        LET entry == results_cache[job_id]
        IN  /\ ErrorOutcome(entry) => entry.kind = "error"
            /\ entry.kind = "result" => entry.error = "" /\ entry.result.tag = "payload"

\* the features of a job as the rows MLService.predict takes
Rows(features) == [i \in DOMAIN features |-> << features[i] >>]

\* C25: an ml_prediction job gives what the registry's predict gives for the
\* model that model_type selects, an error when that model is missing or
\* untrained, and a described error for a model type that is not supported.
C25_PredictionDelegates ==
    Ran("make_ml_prediction")
        => IF handler_input.model_type \in {"linear_regression", "classification"}
           THEN \E name \in ModelNames :
                   LET reply == MLService_predict(models, objects, name,
                                                  Rows(handler_input.features))
                   IN  /\ reply.status = "error" <=> handler_result.tag = "error"
                       /\ reply.status = "success"
                             => handler_result.arg.prediction = reply.data.predictions
           ELSE handler_result = ErrorDict("Unknown model type", handler_input.model_type)

\* C26: once a worker has finished a job, the job's row in processing_jobs
\* has the terminal status of the job: done when it succeeded, failed when it
\* failed.
C26_TerminalStatusStored ==
    \A e \in BagToSet(executed) :
        \E i \in DOMAIN jobs_table :
            /\ jobs_table[i].id = e.job_id
            /\ jobs_table[i].status =
                  IF results_cache[e.job_id].kind = "error" THEN "failed" ELSE "done"

\* the submit_job call that put the k-th entry of the queue: calls return in
\* the order of their puts, and the queue is first in, first out
EnqueuedBy(k) == returned[Len(dequeued) + k]

\* C27: the id a queued job carries stays the id that the submit_job call
\* which enqueued it returned, until the job is taken from the queue, also
\* when one job_data object is submitted more than once.
C27_QueuedIdStable ==
    \A k \in DOMAIN processing_queue :
        heap[processing_queue[k]].id = EnqueuedBy(k).job_id

\* a create_model call returns an error response in this step
CreateFails ==
    /\ ml_response' # ml_response
    /\ ml_response'.op = "create_model"
    /\ ml_response'.reply.status = "error"

\* C28: a create_model call that returns an error response (duplicate name,
\* unsupported kind, or a failure while saving the model to the database)
\* leaves the registry's models as they were.
C28_FailedCreateRegistersNothing ==
    [][ CreateFails => models' = models ]_vars

\* C29: after any sequence of create, train, save and load, a model whose
\* trained flag is true has its weights set, and its predict does not fail
\* with the condition that the model must be trained.
C29_TrainedHasWeights ==
    \A i \in DOMAIN objects :
        objects[i].is_trained
            => /\ objects[i].weights # None
               /\ model_predict(objects[i], << << 3 >> >>).text
                     # "Model must be trained before making predictions"

\* the x values of the rows are all equal
EqualX(x_vals) == \A i, j \in DOMAIN x_vals : x_vals[i] = x_vals[j]

\* C30: training a linear regression on single-feature rows whose x values
\* are all equal makes train_model return an error response and leaves the
\* model's weights, bias and trained flag as they were.
C30_EqualXRefused ==
    (Ran("train_floats") /\ EqualX(handler_input.x_vals))
        => /\ train_model_status(handler_result) = "error"
           /\ handler_result.weights = None
           /\ ~handler_result.is_trained

=============================================================================
